---- MODULE Spec2Model ----
(***************************************************************************)
(* Model of the axum extractor ExtractUserInfo (src/src/lib.rs).           *)
(*                                                                         *)
(* A request carries a list of header lines.  The extractor looks up the   *)
(* X-Endpoint-API-UserInfo header, converts its value to a str, trims it,  *)
(* base64-decodes it (standard alphabet, canonical padding), parses the    *)
(* decoded bytes as JSON and returns the value, or a (400, message) pair.  *)
(*                                                                         *)
(* Bytes are integers 0..255.  Header names, header values and documents   *)
(* are sequences of bytes.                                                 *)
(***************************************************************************)
EXTENDS Integers, Sequences, FiniteSets, TLC

VARIABLES
    request,      \* the header lines of the request as the client sent them
    headers,      \* parts.headers: the HeaderMap built from the request
    pc,           \* position of the running from_request_parts call
    user_info,    \* the local user_info (Option<&HeaderValue>, then &str)
    decoded_user_info,  \* the local decoded_user_info
    parsed_user_info,   \* the local parsed_user_info
    result,       \* what the call returned (or that it panicked)
    logs,         \* entries the call handed to the log facade
    history       \* the completed calls: request, result and logs of each

vars ==
    <<request, headers, pc, user_info, decoded_user_info, parsed_user_info, result, logs,
      history>>

---------------------------------------------------------------------------
(* Bytes and string literals                                               *)

\* The printable ASCII characters, 0x20 .. 0x7E, in code order.  The double
\* quote, the single quote, the backslash and the backtick are written by name.
Ascii ==
    << " ", "!", "DQUOTE", "#", "$", "%", "&", "SQUOTE", "(", ")", "*", "+", ",", "-", ".", "/",
       "0", "1", "2", "3", "4", "5", "6", "7", "8", "9", ":", ";", "<", "=", ">", "?",
       "@", "A", "B", "C", "D", "E", "F", "G", "H", "I", "J", "K", "L", "M", "N", "O",
       "P", "Q", "R", "S", "T", "U", "V", "W", "X", "Y", "Z", "[", "BSLASH", "]", "^", "_",
       "BTICK", "a", "b", "c", "d", "e", "f", "g", "h", "i", "j", "k", "l", "m", "n", "o",
       "p", "q", "r", "s", "t", "u", "v", "w", "x", "y", "z", "{", "|", "}", "~" >>

\* The byte of a printable ASCII character.
Ord(c) == 31 + (CHOOSE i \in 1..Len(Ascii) : Ascii[i] = c)

\* The bytes of a string literal, given character by character.
Bytes(s) == [i \in 1..Len(s) |-> Ord(s[i])]

\* The bytes the parsers and tables below name.
UPPER_A == Ord("A")
UPPER_Z == Ord("Z")
LOWER_A == Ord("a")
LOWER_Z == Ord("z")
DIGIT_0 == Ord("0")
DIGIT_9 == Ord("9")
PLUS == Ord("+")
SLASH == Ord("/")
SPACE == Ord(" ")
QUOTE == Ord("DQUOTE")
BACKSLASH == Ord("BSLASH")
MINUS == Ord("-")
DOT == Ord(".")
COMMA == Ord(",")
COLON == Ord(":")
LBRACKET == Ord("[")
RBRACKET == Ord("]")
LBRACE == Ord("{")
RBRACE == Ord("}")
LOWER_N == Ord("n")
LOWER_T == Ord("t")
LOWER_F == Ord("f")
LOWER_E == Ord("e")
UPPER_E == Ord("E")
LOWER_B == Ord("b")
LOWER_R == Ord("r")
UPPER_Q == Ord("Q")
DIGIT_1 == Ord("1")

TAB == 9
OBS_TEXT == 128      \* a header-value byte outside ASCII (obs-text, 0x80)

---------------------------------------------------------------------------
(* Header names: http::HeaderMap                                           *)

\* const HEADER_X_USER_INFO: &str = "X-Endpoint-API-UserInfo";
HEADER_X_USER_INFO ==
    Bytes(<< "X", "-", "E", "n", "d", "p", "o", "i", "n", "t", "-", "A", "P", "I",
             "-", "U", "s", "e", "r", "I", "n", "f", "o" >>)

\* The header-name table maps an upper-case letter to its lower-case one.
LowerByte(b) == IF b >= UPPER_A /\ b <= UPPER_Z THEN b + 32 ELSE b

\* A header name kept as the caller spelled it.
HdrNameVerbatim(name) == name

\* HdrName::from_bytes: the normalised (lower-case) form of a header name.
HdrNameFromBytes(name) == [i \in 1..Len(name) |-> LowerByte(name[i])]

RECURSIVE HeaderMapOf(_)
\* The HeaderMap of a request: every line appended in order under its
\* normalised name.
HeaderMapOf(req) ==
    IF req = << >> THEN << >>
    ELSE << [name |-> HdrNameFromBytes(Head(req).name), value |-> Head(req).value] >>
         \o HeaderMapOf(Tail(req))

\* The entries of the map stored under a name, in insertion order.
Entries(map, key) == SelectSeq(map, LAMBDA e : e.name = key)

\* A lookup that returns the last value stored under the name.
GetLast(map, name) ==
    LET es == Entries(map, HdrNameFromBytes(name))
    IN  IF es = << >> THEN [some |-> FALSE, value |-> << >>]
        ELSE [some |-> TRUE, value |-> es[Len(es)].value]

\* A lookup that takes a header with an empty value for an absent one.
GetNonEmpty(map, name) ==
    LET es == Entries(map, HdrNameFromBytes(name))
    IN  IF es = << >> \/ es[1].value = << >> THEN [some |-> FALSE, value |-> << >>]
        ELSE [some |-> TRUE, value |-> es[1].value]

\* HeaderMap::get(&str): the first value stored under the name, if any.
Get(map, name) ==
    LET es == Entries(map, HdrNameFromBytes(name))
    IN  IF es = << >> THEN [some |-> FALSE, value |-> << >>]
        ELSE [some |-> TRUE, value |-> es[1].value]

---------------------------------------------------------------------------
(* HeaderValue::to_str and str::trim                                       *)

\* HeaderValue::to_str succeeds only on visible ASCII, space and tab.
IsVisibleAscii(b) == (b >= 32 /\ b < 127) \/ b = TAB

ToStrOk(value) == \A i \in 1..Len(value) : IsVisibleAscii(value[i])

\* char::is_whitespace on the characters a str from a header value can hold.
IsWhitespace(b) == b = SPACE \/ (b >= 9 /\ b <= 13)

RECURSIVE TrimStart(_)
TrimStart(s) ==
    IF s # << >> /\ IsWhitespace(Head(s)) THEN TrimStart(Tail(s)) ELSE s

RECURSIVE TrimEnd(_)
TrimEnd(s) ==
    IF s # << >> /\ IsWhitespace(s[Len(s)]) THEN TrimEnd(SubSeq(s, 1, Len(s) - 1)) ELSE s

\* A trim of the leading whitespace only.
TrimStartOnly(s) == TrimStart(s)

\* str::trim
Trim(s) == TrimEnd(TrimStart(s))

---------------------------------------------------------------------------
(* base64: general_purpose::STANDARD                                       *)

PAD_BYTE == Ord("=")

\* The decode table of the URL-safe alphabet.
DecodeTableUrlSafe(b) ==
    IF b >= UPPER_A /\ b <= UPPER_Z THEN b - UPPER_A
    ELSE IF b >= LOWER_A /\ b <= LOWER_Z THEN b - LOWER_A + 26
    ELSE IF b >= DIGIT_0 /\ b <= DIGIT_9 THEN b - DIGIT_0 + 52
    ELSE IF b = MINUS THEN 62
    ELSE IF b = Ord("_") THEN 63
    ELSE -1

\* The standard alphabet's decode table: the sextet of a symbol, -1 if invalid.
DecodeTable(b) ==
    IF b >= UPPER_A /\ b <= UPPER_Z THEN b - UPPER_A
    ELSE IF b >= LOWER_A /\ b <= LOWER_Z THEN b - LOWER_A + 26
    ELSE IF b >= DIGIT_0 /\ b <= DIGIT_9 THEN b - DIGIT_0 + 52
    ELSE IF b = PLUS THEN 62
    ELSE IF b = SLASH THEN 63
    ELSE -1

\* The standard alphabet's encode table.
EncodeTable(m) ==
    IF m < 26 THEN UPPER_A + m
    ELSE IF m < 52 THEN LOWER_A + (m - 26)
    ELSE IF m < 62 THEN DIGIT_0 + (m - 52)
    ELSE IF m = 62 THEN PLUS
    ELSE SLASH

DecodeErr == [ok |-> FALSE, bytes |-> << >>]

\* The last (possibly padded) group of up to four symbols.
DecodeSuffix(q) ==
    LET n == Len(q)
        firstPad == IF \E i \in 1..n : q[i] = PAD_BYTE
                    THEN (CHOOSE i \in 1..n : q[i] = PAD_BYTE /\ \A j \in 1..(i - 1) : q[j] # PAD_BYTE)
                    ELSE n + 1
        morsels == firstPad - 1
        padding == n - morsels
        m(i) == DecodeTable(q[i])
    IN  IF \E i \in 1..morsels : m(i) = -1 THEN DecodeErr          \* invalid symbol
        ELSE IF \E i \in firstPad..n : q[i] # PAD_BYTE THEN DecodeErr \* symbol after padding
        ELSE IF padding > 0 /\ morsels < 2 THEN DecodeErr          \* padding in the first two places
        ELSE IF morsels = 1 THEN DecodeErr                         \* invalid length
        ELSE IF (padding + morsels) % 4 # 0 THEN DecodeErr         \* padding not canonical
        ELSE IF morsels = 0 THEN [ok |-> TRUE, bytes |-> << >>]
        ELSE IF morsels = 2 THEN
            IF m(2) % 16 # 0 THEN DecodeErr                        \* trailing bits set
            ELSE [ok |-> TRUE, bytes |-> << m(1) * 4 + m(2) \div 16 >>]
        ELSE IF morsels = 3 THEN
            IF m(3) % 4 # 0 THEN DecodeErr                         \* trailing bits set
            ELSE [ok |-> TRUE,
                  bytes |-> << m(1) * 4 + m(2) \div 16, (m(2) % 16) * 16 + m(3) \div 4 >>]
        ELSE [ok |-> TRUE,
              bytes |-> << m(1) * 4 + m(2) \div 16, (m(2) % 16) * 16 + m(3) \div 4,
                           (m(3) % 4) * 64 + m(4) >>]

RECURSIVE DecodeFrom(_, _)
DecodeFrom(s, acc) ==
    IF Len(s) <= 4 THEN
        LET last == DecodeSuffix(s)
        IN  IF last.ok THEN [ok |-> TRUE, bytes |-> acc \o last.bytes] ELSE DecodeErr
    ELSE
        LET m(i) == DecodeTable(s[i])
        IN  IF \E i \in 1..4 : m(i) = -1 THEN DecodeErr
            ELSE DecodeFrom(SubSeq(s, 5, Len(s)),
                            acc \o << m(1) * 4 + m(2) \div 16, (m(2) % 16) * 16 + m(3) \div 4,
                                      (m(3) % 4) * 64 + m(4) >>)

\* general_purpose::STANDARD.decode
Decode(s) == DecodeFrom(s, << >>)

\* general_purpose::STANDARD.encode, as the upstream proxy applies it: four
\* symbols for every three bytes, the last group padded.
Encode(b) ==
    LET n == Len(b)
        byte(k) == IF k <= n THEN b[k] ELSE 0
    IN  [k \in 1..(4 * ((n + 2) \div 3)) |->
            LET g == (k - 1) \div 4
                r == (k - 1) % 4
                b1 == byte(3 * g + 1)
                b2 == byte(3 * g + 2)
                b3 == byte(3 * g + 3)
            IN  IF r = 0 THEN EncodeTable(b1 \div 4)
                ELSE IF r = 1 THEN EncodeTable((b1 % 4) * 16 + b2 \div 16)
                ELSE IF r = 2 THEN
                    IF 3 * g + 2 > n THEN PAD_BYTE ELSE EncodeTable((b2 % 16) * 4 + b3 \div 64)
                ELSE IF 3 * g + 3 > n THEN PAD_BYTE ELSE EncodeTable(b3 % 64)]

---------------------------------------------------------------------------
(* serde_json::from_slice::<Value>                                         *)
(*                                                                         *)
(* A Value is a record with the same fields whatever its type:             *)
(*   t      "null", "bool", "int", "float", "str", "arr" or "obj"          *)
(*   n, e   a number: the integer n, or the float n * 10^e (n without      *)
(*          trailing zeros); a bool: n = 1 for true                        *)
(*   s      the bytes of a string                                          *)
(*   items  the elements of an array in order, or the members of an object *)
(*          sorted by key, one per key (Map is a BTreeMap)                 *)
(* The parser covers ASCII documents whose numbers are held exactly (no    *)
(* overflow of u64, i64 or f64) and whose nesting stays under the         *)
(* recursion limit of serde_json; unicode escapes and non-ASCII bytes      *)
(* inside strings are outside the documents the model draws and are        *)
(* rejected here.                                                          *)

JValue(t, n, e, s, items) == [t |-> t, n |-> n, e |-> e, s |-> s, items |-> items]

JNull == JValue("null", 0, 0, << >>, << >>)
JBool(x) == JValue("bool", IF x THEN 1 ELSE 0, 0, << >>, << >>)
JInt(n) == JValue("int", n, 0, << >>, << >>)
JFloat(n, e) == JValue("float", n, e, << >>, << >>)
JString(s) == JValue("str", 0, 0, s, << >>)
JArray(items) == JValue("arr", 0, 0, << >>, items)
JObject(items) == JValue("obj", 0, 0, << >>, items)

ParseFail == [ok |-> FALSE, val |-> JNull, pos |-> 0]
ParseOk(v, pos) == [ok |-> TRUE, val |-> v, pos |-> pos]

\* The byte at a position, -1 past the end of the input.
Peek(b, i) == IF i >= 1 /\ i <= Len(b) THEN b[i] ELSE -1

IsJsonWs(c) == c = SPACE \/ c = 9 \/ c = 10 \/ c = 13
IsDigit(c) == c >= DIGIT_0 /\ c <= DIGIT_9

RECURSIVE SkipWs(_, _)
\* The first position at or after i that holds no JSON whitespace.
SkipWs(b, i) == IF IsJsonWs(Peek(b, i)) THEN SkipWs(b, i + 1) ELSE i

RECURSIVE DigitsEnd(_, _)
\* The first position at or after i that holds no digit.
DigitsEnd(b, i) == IF IsDigit(Peek(b, i)) THEN DigitsEnd(b, i + 1) ELSE i

RECURSIVE DigitsVal(_, _, _)
\* The number written by the digits b[i] .. b[j].
DigitsVal(b, i, j) ==
    IF i > j THEN 0 ELSE DigitsVal(b, i, j - 1) * 10 + (b[j] - DIGIT_0)

RECURSIVE Pow10(_)
Pow10(k) == IF k <= 0 THEN 1 ELSE 10 * Pow10(k - 1)

RECURSIVE NormFloat(_, _)
\* A float as significand and exponent, the significand without trailing zeros.
NormFloat(n, e) ==
    IF n = 0 THEN JFloat(0, 0)
    ELSE IF n % 10 = 0 THEN NormFloat(n \div 10, e + 1)
    ELSE JFloat(n, e)

\* Deserializer::parse_integer and parse_decimal / parse_exponent.
ParseNumber(b, i) ==
    LET neg == Peek(b, i) = MINUS
        j == IF neg THEN i + 1 ELSE i
        intEnd == IF Peek(b, j) = DIGIT_0 THEN j + 1 ELSE DigitsEnd(b, j)
        intVal == DigitsVal(b, j, intEnd - 1)
        hasFrac == Peek(b, intEnd) = DOT
        fracEnd == IF hasFrac THEN DigitsEnd(b, intEnd + 1) ELSE intEnd
        fracLen == IF hasFrac THEN fracEnd - (intEnd + 1) ELSE 0
        fracVal == IF hasFrac THEN DigitsVal(b, intEnd + 1, fracEnd - 1) ELSE 0
        hasExp == Peek(b, fracEnd) = LOWER_E \/ Peek(b, fracEnd) = UPPER_E
        expSign == IF Peek(b, fracEnd + 1) = MINUS THEN -1 ELSE 1
        expStart == IF Peek(b, fracEnd + 1) = MINUS \/ Peek(b, fracEnd + 1) = PLUS
                    THEN fracEnd + 2 ELSE fracEnd + 1
        expEnd == IF hasExp THEN DigitsEnd(b, expStart) ELSE fracEnd
        expVal == IF hasExp THEN expSign * DigitsVal(b, expStart, expEnd - 1) ELSE 0
        sign == IF neg THEN -1 ELSE 1
    IN  IF ~IsDigit(Peek(b, j)) THEN ParseFail
        ELSE IF Peek(b, j) = DIGIT_0 /\ IsDigit(Peek(b, j + 1)) THEN ParseFail
        ELSE IF hasFrac /\ fracLen = 0 THEN ParseFail
        ELSE IF hasExp /\ expEnd = expStart THEN ParseFail
        ELSE IF hasFrac \/ hasExp THEN
            ParseOk(NormFloat(sign * (intVal * Pow10(fracLen) + fracVal), expVal - fracLen), expEnd)
        ELSE IF neg /\ intVal = 0 THEN ParseOk(JFloat(0, 0), expEnd)
        ELSE ParseOk(JInt(sign * intVal), expEnd)

\* The byte an escape character stands for, -1 if it is no (modelled) escape.
Escape(c) ==
    IF c = QUOTE THEN QUOTE
    ELSE IF c = BACKSLASH THEN BACKSLASH
    ELSE IF c = SLASH THEN SLASH
    ELSE IF c = LOWER_B THEN 8
    ELSE IF c = LOWER_F THEN 12
    ELSE IF c = LOWER_N THEN 10
    ELSE IF c = LOWER_R THEN 13
    ELSE IF c = LOWER_T THEN 9
    ELSE -1

RECURSIVE ScanStr(_, _, _)
\* SliceRead::parse_str from the position after the opening quote.
ScanStr(b, j, acc) ==
    LET c == Peek(b, j)
    IN  IF c = QUOTE THEN [ok |-> TRUE, s |-> acc, pos |-> j + 1]
        ELSE IF c = BACKSLASH THEN
            IF Escape(Peek(b, j + 1)) = -1 THEN [ok |-> FALSE, s |-> << >>, pos |-> 0]
            ELSE ScanStr(b, j + 2, Append(acc, Escape(Peek(b, j + 1))))
        ELSE IF c < 32 \/ c >= 128 THEN [ok |-> FALSE, s |-> << >>, pos |-> 0]
        ELSE ScanStr(b, j + 1, Append(acc, c))

NULL_LITERAL == Bytes(<< "n", "u", "l", "l" >>)
TRUE_LITERAL == Bytes(<< "t", "r", "u", "e" >>)
FALSE_LITERAL == Bytes(<< "f", "a", "l", "s", "e" >>)

\* Does b hold the bytes of word at position i ?
Literal(b, i, word) ==
    /\ i + Len(word) - 1 <= Len(b)
    /\ SubSeq(b, i, i + Len(word) - 1) = word

RECURSIVE KeyLess(_, _)
\* The order of the keys of a map: byte-wise lexicographic.
KeyLess(a, b) ==
    IF b = << >> THEN FALSE
    ELSE IF a = << >> THEN TRUE
    ELSE IF Head(a) # Head(b) THEN Head(a) < Head(b)
    ELSE KeyLess(Tail(a), Tail(b))

\* Map::insert: the member replaces one of the same key, else goes in key order.
MapInsert(items, k, v) ==
    LET before == SelectSeq(items, LAMBDA m : KeyLess(m.k, k))
        after == SelectSeq(items, LAMBDA m : KeyLess(k, m.k))
    IN  before \o << [k |-> k, v |-> v] >> \o after

RECURSIVE ParseValue(_, _)
RECURSIVE ParseElems(_, _, _)
RECURSIVE ParseMembers(_, _, _)

\* The elements of an array from position i (after whitespace) on.
ParseElems(b, i, acc) ==
    LET v == ParseValue(b, i)
        k == SkipWs(b, v.pos)
    IN  IF ~v.ok THEN ParseFail
        ELSE IF Peek(b, k) = COMMA THEN
            ParseElems(b, SkipWs(b, k + 1), Append(acc, [k |-> << >>, v |-> v.val]))
        ELSE IF Peek(b, k) = RBRACKET THEN
            ParseOk(JArray(Append(acc, [k |-> << >>, v |-> v.val])), k + 1)
        ELSE ParseFail

\* The members of an object from position i (after whitespace) on.
ParseMembers(b, i, acc) ==
    LET key == ScanStr(b, i + 1, << >>)
        c == SkipWs(b, key.pos)
        v == ParseValue(b, SkipWs(b, c + 1))
        k == SkipWs(b, v.pos)
    IN  IF Peek(b, i) # QUOTE \/ ~key.ok THEN ParseFail
        ELSE IF Peek(b, c) # COLON THEN ParseFail
        ELSE IF ~v.ok THEN ParseFail
        ELSE IF Peek(b, k) = COMMA THEN
            ParseMembers(b, SkipWs(b, k + 1), MapInsert(acc, key.s, v.val))
        ELSE IF Peek(b, k) = RBRACE THEN
            ParseOk(JObject(MapInsert(acc, key.s, v.val)), k + 1)
        ELSE ParseFail

\* Deserializer::parse_any on the value that starts at position i.
ParseValue(b, i) ==
    LET c == Peek(b, i)
    IN  IF c = LOWER_N THEN
            IF Literal(b, i, NULL_LITERAL) THEN ParseOk(JNull, i + 4)
            ELSE ParseFail
        ELSE IF c = LOWER_T THEN
            IF Literal(b, i, TRUE_LITERAL) THEN ParseOk(JBool(TRUE), i + 4)
            ELSE ParseFail
        ELSE IF c = LOWER_F THEN
            IF Literal(b, i, FALSE_LITERAL) THEN ParseOk(JBool(FALSE), i + 5)
            ELSE ParseFail
        ELSE IF c = MINUS \/ IsDigit(c) THEN ParseNumber(b, i)
        ELSE IF c = QUOTE THEN
            LET str == ScanStr(b, i + 1, << >>)
            IN  IF str.ok THEN ParseOk(JString(str.s), str.pos) ELSE ParseFail
        ELSE IF c = LBRACKET THEN
            LET j == SkipWs(b, i + 1)
            IN  IF Peek(b, j) = RBRACKET THEN ParseOk(JArray(<< >>), j + 1)
                ELSE ParseElems(b, j, << >>)
        ELSE IF c = LBRACE THEN
            LET j == SkipWs(b, i + 1)
            IN  IF Peek(b, j) = RBRACE THEN ParseOk(JObject(<< >>), j + 1)
                ELSE ParseMembers(b, j, << >>)
        ELSE ParseFail

\* serde_json::from_slice: one value, whitespace around it, nothing after.
ParseJson(b) ==
    LET v == ParseValue(b, SkipWs(b, 1))
    IN  IF v.ok /\ SkipWs(b, v.pos) = Len(b) + 1 THEN [ok |-> TRUE, val |-> v.val]
        ELSE [ok |-> FALSE, val |-> JNull]

---------------------------------------------------------------------------
(* Results, rejections and log entries                                     *)

\* StatusCode::BAD_REQUEST
BAD_REQUEST == 400

\* format!("Invalid {} : <reason>", name): the bytes of the message.
FormatInvalid(name, reason) ==
    Bytes(<< "I", "n", "v", "a", "l", "i", "d", " " >>) \o name \o Bytes(<< " ", ":", " " >>) \o reason

NOT_FOUND == Bytes(<< "N", "o", "t", " ", "f", "o", "u", "n", "d" >>)
NOT_BASE64 ==
    Bytes(<< "N", "o", "t", " ", "a", " ", "v", "a", "l", "i", "d", " ",
             "b", "a", "s", "e", " ", "6", "4" >>)
NOT_JSON ==
    Bytes(<< "N", "o", "t", " ", "a", " ", "v", "a", "l", "i", "d", " ", "J", "S", "O", "N" >>)

\* What a call can end in.  tag is "none" while the call is running.
Outcome(tag, status, message, value) ==
    [tag |-> tag, status |-> status, message |-> message, value |-> value]

NoResult == Outcome("none", 0, << >>, JNull)
\* Ok(ExtractUserInfo(value))
OkResult(value) == Outcome("Ok", 0, << >>, value)
\* Err((status, message))
ErrResult(status, message) == Outcome("Err", status, message, JNull)
\* The call unwound with a panic and returned nothing.
Panicked == Outcome("panic", 0, << >>, JNull)

\* The rejection of a missing header under the status 404 Not Found.
ErrNotFoundAs404 == ErrResult(404, FormatInvalid(HEADER_X_USER_INFO, NOT_FOUND))

\* Err((StatusCode::BAD_REQUEST, format!("Invalid {} : Not found", ..)))
ErrNotFound == ErrResult(BAD_REQUEST, FormatInvalid(HEADER_X_USER_INFO, NOT_FOUND))
\* Err((StatusCode::BAD_REQUEST, format!("Invalid {} : Not a valid base 64", ..)))
ErrNotBase64 == ErrResult(BAD_REQUEST, FormatInvalid(HEADER_X_USER_INFO, NOT_BASE64))
\* Err((StatusCode::BAD_REQUEST, format!("Invalid {} : Not a valid JSON", ..)))
ErrNotJson == ErrResult(BAD_REQUEST, FormatInvalid(HEADER_X_USER_INFO, NOT_JSON))

\* error!("[{}] Failed to ... due to : {:?}", HEADER_X_USER_INFO, cause)
LogEntry(cause) == [level |-> "error", header |-> HEADER_X_USER_INFO, cause |-> cause]

---------------------------------------------------------------------------
(* The requests the model draws                                            *)

MaxDocLen == 3      \* longest document enumerated byte by byte
MaxRawLen == 4      \* longest header value enumerated byte by byte
MaxPad == 1         \* most spaces added on one side of a value
MaxLines == 2       \* most header lines in one request

SeqsUpTo(S, n) == UNION {[1..k -> S] : k \in 0..n}

Line(name, value) == [name |-> name, value |-> value]

\* Documents the upstream proxy may encode: every short byte string over the
\* structural characters, and some longer ones of each JSON shape.
DocAlphabet == {LBRACKET, RBRACKET, LBRACE, RBRACE, QUOTE, DIGIT_1}

SampleDocs ==
    { Bytes(<< "{", "DQUOTE", "i", "s", "s", "DQUOTE", ":", "DQUOTE", "m", "y", "DQUOTE", ",",
               "DQUOTE", "i", "a", "t", "DQUOTE", ":", "1", "5", "}" >>),
      Bytes(<< "{", "DQUOTE", "a", "DQUOTE", ":", "1", ",", "DQUOTE", "a", "DQUOTE", ":", "2", "}" >>),
      Bytes(<< "[", "1", ",", " ", "DQUOTE", "a", "DQUOTE", ",", "[", "]", ",", "{", "}", "]" >>),
      Bytes(<< "n", "u", "l", "l" >>),
      Bytes(<< "t", "r", "u", "e" >>),
      Bytes(<< "f", "a", "l", "s", "e" >>),
      Bytes(<< " ", "-", "1", "0", " " >>),
      Bytes(<< "1", ".", "5", "e", "1" >>),
      Bytes(<< "DQUOTE", "a", "?", "DQUOTE" >>),
      Bytes(<< "DQUOTE", "a", ">", "DQUOTE" >>),
      Bytes(<< "t", "h", "i", "s", "-", "i", "s", "-", "n", "o", "t", "-", "a", "-",
               "j", "s", "o", "n" >>),
      Bytes(<< "{", "DQUOTE", "a", "DQUOTE", ":", "}" >>) }

Docs == SeqsUpTo(DocAlphabet, MaxDocLen) \cup SampleDocs

EncodedValues == {Encode(d) : d \in Docs}

\* Header values that were not produced by encoding a document.
RawAlphabet == {UPPER_Q, PAD_BYTE, SPACE, OBS_TEXT}

RawValues == SeqsUpTo(RawAlphabet, MaxRawLen)

SampleValues ==
    { << >>,
      Bytes(<< "e", "3", "0", "=" >>),
      Bytes(<< "M", "Q", "=", "=" >>),
      Bytes(<< "e", "3", " ", "0", "=" >>),
      Bytes(<< "Q", "R", "=", "=" >>),
      Bytes(<< "M", "Q" >>),
      << TAB >> \o Bytes(<< "W", "1", "0", "=" >>) \o << TAB >>,
      Bytes(<< "t", "h", "i", "s", "-", "i", "s", "-", "n", "o", "t", "-", "a", "-",
               "b", "a", "s", "e", "6", "4" >>),
      Bytes(<< "M", "Q", "=", "=" >>) \o << OBS_TEXT >> }

FewValues == { Bytes(<< "e", "3", "0", "=" >>), Bytes(<< "M", "Q", "=", "=" >>), Bytes(<< "!" >>) }

UpperByte(b) == IF b >= LOWER_A /\ b <= LOWER_Z THEN b - 32 ELSE b
LowerName(name) == [i \in 1..Len(name) |-> LowerByte(name[i])]
UpperName(name) == [i \in 1..Len(name) |-> UpperByte(name[i])]

LOWER_HEADER == LowerName(HEADER_X_USER_INFO)

\* The spellings of the header name a client may send.
Casings ==
    { HEADER_X_USER_INFO, LOWER_HEADER, UpperName(HEADER_X_USER_INFO),
      Bytes(<< "X", "-", "E", "n", "d", "p", "o", "i", "n", "t", "-", "a", "p", "i",
               "-", "U", "s", "e", "r", "I", "n", "f", "o" >>),
      Bytes(<< "x", "-", "E", "n", "d", "P", "o", "i", "n", "t", "-", "a", "p", "i",
               "-", "U", "s", "e", "r", "I", "n", "f", "o" >>) }

\* Another header.
OTHER_HEADER == Bytes(<< "X", "-", "E", "n", "d", "p", "o", "i", "n", "t", "-", "A", "P", "I" >>)

BaseRequests ==
    { << >> }
    \cup { << Line(HEADER_X_USER_INFO, v) >> : v \in EncodedValues \cup RawValues \cup SampleValues }
    \cup { << Line(n, v) >> : n \in Casings \cup {OTHER_HEADER}, v \in SampleValues }
    \cup UNION { [1..k -> { Line(n, v) : n \in { HEADER_X_USER_INFO,
                                                   LOWER_HEADER,
                                                   OTHER_HEADER },
                                         v \in FewValues }] : k \in 2..MaxLines }

Spaces(n) == [i \in 1..n |-> SPACE]

\* The request with the value of each line put between l and r spaces.
Padded(req, l, r) ==
    [i \in 1..Len(req) |-> Line(req[i].name, Spaces(l) \o req[i].value \o Spaces(r))]

\* The request with every header name in lower case, and in upper case.
Lowered(req) == [i \in 1..Len(req) |-> Line(LowerName(req[i].name), req[i].value)]
Uppered(req) == [i \in 1..Len(req) |-> Line(UpperName(req[i].name), req[i].value)]

\* The lines of a request that name the user-info header, in order.
UserInfoLines(req) == SelectSeq(req, LAMBDA ln : LowerName(ln.name) = LOWER_HEADER)

\* Requests related to a request: respelled names, padded values, only the
\* first occurrence of the header, one more occurrence of it.
Variants(req) ==
    { Lowered(req), Uppered(req) }
    \cup { Padded(req, l, r) : l \in 0..MaxPad, r \in 0..MaxPad }
    \cup (IF UserInfoLines(req) # << >> THEN { << UserInfoLines(req)[1] >> } ELSE { })
    \cup (IF Len(req) < MaxLines
          THEN { Append(req, Line(n, v)) :
                     n \in { HEADER_X_USER_INFO, LOWER_HEADER }, v \in FewValues }
          ELSE { })

---------------------------------------------------------------------------
(* from_request_parts, statement by statement                              *)

NoHeader == [some |-> FALSE, value |-> << >>]
NotDecoded == [ok |-> FALSE, bytes |-> << >>]
NotParsed == [ok |-> FALSE, val |-> JNull]

Init ==
    /\ request \in BaseRequests
    /\ headers = HeaderMapOf(request)
    /\ pc = "start"
    /\ user_info = NoHeader
    /\ decoded_user_info = NotDecoded
    /\ parsed_user_info = NotParsed
    /\ result = NoResult
    /\ logs = << >>
    /\ history = << >>

\* The call ends with outcome r.
Return(r) ==
    /\ result' = r
    /\ pc' = "done"
    /\ history' = Append(history, [request |-> request, result |-> r, logs |-> logs])

\* A lookup that takes the header out of the map (HeaderMap::remove).
LookupTaking ==
    /\ pc = "start"
    /\ user_info' = Get(headers, HEADER_X_USER_INFO)
    /\ headers' = SelectSeq(headers, LAMBDA e : e.name # HdrNameFromBytes(HEADER_X_USER_INFO))
    /\ pc' = IF user_info'.some THEN "some" ELSE "none"
    /\ UNCHANGED <<request, decoded_user_info, parsed_user_info, result, logs, history>>

\* let user_info = parts.headers.get(HEADER_X_USER_INFO); match user_info { .. }
Lookup ==
    /\ pc = "start"
    /\ user_info' = Get(headers, HEADER_X_USER_INFO)
    /\ pc' = IF user_info'.some THEN "some" ELSE "none"
    /\ UNCHANGED <<request, headers, decoded_user_info, parsed_user_info, result, logs, history>>

\* let user_info = user_info.to_str().unwrap().trim();
ToStrTrim ==
    /\ pc = "some"
    /\ IF ToStrOk(user_info.value)
       THEN /\ user_info' = [user_info EXCEPT !.value = Trim(user_info.value)]
            /\ pc' = "decode"
            /\ UNCHANGED <<result, history>>
       ELSE /\ Return(Panicked)
            /\ UNCHANGED user_info
    /\ UNCHANGED <<request, headers, decoded_user_info, parsed_user_info, logs>>

\* let decoded_user_info = general_purpose::STANDARD.decode(user_info);
\* if decoded_user_info.is_err() { .. }
DecodeStep ==
    /\ pc = "decode"
    /\ decoded_user_info' = Decode(user_info.value)
    /\ pc' = IF decoded_user_info'.ok THEN "parse" ELSE "log_base64"
    /\ UNCHANGED <<request, headers, user_info, parsed_user_info, result, logs, history>>

\* The base64 failure branch without its log line.
LogBase64Skipped ==
    /\ pc = "log_base64"
    /\ pc' = "return_base64"
    /\ UNCHANGED <<request, headers, user_info, decoded_user_info, parsed_user_info, result, logs, history>>

\* error!("[{}] Failed to decode base 64 due to : {:?}", ..)
LogBase64 ==
    /\ pc = "log_base64"
    /\ logs' = Append(logs, LogEntry("base64"))
    /\ pc' = "return_base64"
    /\ UNCHANGED <<request, headers, user_info, decoded_user_info, parsed_user_info, result, history>>

\* return Err((StatusCode::BAD_REQUEST, format!("Invalid {} : Not a valid base 64", ..)));
ReturnBase64 ==
    /\ pc = "return_base64"
    /\ Return(ErrNotBase64)
    /\ UNCHANGED <<request, headers, user_info, decoded_user_info, parsed_user_info, logs>>

\* let parsed_user_info = serde_json::from_slice(&decoded_user_info.unwrap());
\* if parsed_user_info.is_err() { .. }
ParseStep ==
    /\ pc = "parse"
    /\ parsed_user_info' = ParseJson(decoded_user_info.bytes)
    /\ pc' = IF parsed_user_info'.ok THEN "return_ok" ELSE "log_json"
    /\ UNCHANGED <<request, headers, user_info, decoded_user_info, result, logs, history>>

\* error!("[{}] Failed to parse JSON due to : {:?}", ..)
LogJson ==
    /\ pc = "log_json"
    /\ logs' = Append(logs, LogEntry("json"))
    /\ pc' = "return_json"
    /\ UNCHANGED <<request, headers, user_info, decoded_user_info, parsed_user_info, result, history>>

\* return Err((StatusCode::BAD_REQUEST, format!("Invalid {} : Not a valid JSON", ..)));
ReturnJson ==
    /\ pc = "return_json"
    /\ Return(ErrNotJson)
    /\ UNCHANGED <<request, headers, user_info, decoded_user_info, parsed_user_info, logs>>

\* Ok(ExtractUserInfo(parsed_user_info.unwrap()))
ReturnOk ==
    /\ pc = "return_ok"
    /\ Return(OkResult(parsed_user_info.val))
    /\ UNCHANGED <<request, headers, user_info, decoded_user_info, parsed_user_info, logs>>

\* None => Err((StatusCode::BAD_REQUEST, format!("Invalid {} : Not found", ..)))
ReturnMissing ==
    /\ pc = "none"
    /\ Return(ErrNotFound)
    /\ UNCHANGED <<request, headers, user_info, decoded_user_info, parsed_user_info, logs>>

\* A fresh call starts with fresh locals.
StartCall ==
    /\ pc' = "start"
    /\ user_info' = NoHeader
    /\ decoded_user_info' = NotDecoded
    /\ parsed_user_info' = NotParsed
    /\ result' = NoResult
    /\ logs' = << >>
    /\ UNCHANGED history

\* The caller invokes from_request_parts once more on the same parts.
InvokeAgain ==
    /\ pc = "done"
    /\ Len(history) = 1
    /\ StartCall
    /\ UNCHANGED <<request, headers>>

\* The caller invokes from_request_parts on the parts of a related request.
InvokeOther ==
    /\ pc = "done"
    /\ Len(history) = 1
    /\ \E req \in Variants(request) \ {request} :
          /\ request' = req
          /\ headers' = HeaderMapOf(req)
    /\ StartCall

Next ==
    \/ Lookup
    \/ ToStrTrim
    \/ DecodeStep
    \/ LogBase64
    \/ ReturnBase64
    \/ ParseStep
    \/ LogJson
    \/ ReturnJson
    \/ ReturnOk
    \/ ReturnMissing
    \/ InvokeAgain
    \/ InvokeOther

Spec == Init /\ [][Next]_vars

---------------------------------------------------------------------------
(* What the claims speak of, stated apart from the extractor               *)

\* The three rejections, written out.
MSG_NOT_FOUND ==
    Bytes(<< "I", "n", "v", "a", "l", "i", "d", " ", "X", "-", "E", "n", "d", "p", "o",
              "i", "n", "t", "-", "A", "P", "I", "-", "U", "s", "e", "r", "I", "n", "f",
              "o", " ", ":", " ", "N", "o", "t", " ", "f", "o", "u", "n", "d" >>)
MSG_NOT_BASE64 ==
    Bytes(<< "I", "n", "v", "a", "l", "i", "d", " ", "X", "-", "E", "n", "d", "p", "o",
              "i", "n", "t", "-", "A", "P", "I", "-", "U", "s", "e", "r", "I", "n", "f",
              "o", " ", ":", " ", "N", "o", "t", " ", "a", " ", "v", "a", "l", "i", "d",
              " ", "b", "a", "s", "e", " ", "6", "4" >>)
MSG_NOT_JSON ==
    Bytes(<< "I", "n", "v", "a", "l", "i", "d", " ", "X", "-", "E", "n", "d", "p", "o",
              "i", "n", "t", "-", "A", "P", "I", "-", "U", "s", "e", "r", "I", "n", "f",
              "o", " ", ":", " ", "N", "o", "t", " ", "a", " ", "v", "a", "l", "i", "d",
              " ", "J", "S", "O", "N" >>)

HeaderMissing == Outcome("Err", 400, MSG_NOT_FOUND, JNull)
InvalidBase64 == Outcome("Err", 400, MSG_NOT_BASE64, JNull)
InvalidJson == Outcome("Err", 400, MSG_NOT_JSON, JNull)

\* The calls that have returned, looked at when a call returns.
Calls == IF pc = "done" THEN DOMAIN history ELSE { }

\* The value of the only user-info line of a request that has exactly one.
HasOneValue(req) == Len(UserInfoLines(req)) = 1
OnlyValue(req) == UserInfoLines(req)[1].value

Base64Symbols ==
    (UPPER_A..UPPER_Z) \cup (LOWER_A..LOWER_Z) \cup (DIGIT_0..DIGIT_9) \cup {PLUS, SLASH}

\* Text in the shape of padded standard base64.
IsBase64Text(b) ==
    /\ Len(b) % 4 = 0
    /\ \E p \in 0..2 :
          /\ p <= Len(b)
          /\ \A k \in 1..(Len(b) - p) : b[k] \in Base64Symbols
          /\ \A k \in (Len(b) - p + 1)..Len(b) : b[k] = PAD_BYTE

\* The number a symbol stands for, read off the encode table.
SextetOf(c) == IF c \in Base64Symbols THEN CHOOSE m \in 0..63 : EncodeTable(m) = c ELSE 0

\* The only document base64 text v can be the encoding of.
CandidateDoc(v) ==
    LET pads == Cardinality({k \in 1..Len(v) : v[k] = PAD_BYTE})
        x(k) == SextetOf(v[k])
    IN  [k \in 1..((Len(v) \div 4) * 3 - pads) |->
            LET g == 4 * ((k - 1) \div 3)
                r == (k - 1) % 3
            IN  IF r = 0 THEN x(g + 1) * 4 + x(g + 2) \div 16
                ELSE IF r = 1 THEN (x(g + 2) % 16) * 16 + x(g + 3) \div 4
                ELSE (x(g + 3) % 4) * 64 + x(g + 4)]

\* v is the padded standard base64 encoding of a valid JSON document.
EncodesJson(v) ==
    /\ IsBase64Text(v)
    /\ Encode(CandidateDoc(v)) = v
    /\ ParseJson(CandidateDoc(v)).ok

IsBlank(c) == c = SPACE \/ c = TAB

\* Request q is request r with spaces added around the value of its only line.
IsPaddingOf(q, r) ==
    /\ Len(q) = 1 /\ Len(r) = 1
    /\ q[1].name = r[1].name
    /\ Len(q[1].value) >= Len(r[1].value)
    /\ \E l \in 0..(Len(q[1].value) - Len(r[1].value)) :
          q[1].value = Spaces(l) \o r[1].value
                       \o Spaces(Len(q[1].value) - Len(r[1].value) - l)

\* A value of base64 symbols and blanks with a blank strictly inside it.
HasInnerBlank(v) ==
    /\ \A k \in 1..Len(v) : v[k] \in Base64Symbols \cup {PAD_BYTE, SPACE, TAB}
    /\ \E k \in 2..(Len(v) - 1) :
          /\ IsBlank(v[k])
          /\ \E a \in 1..(k - 1) : ~IsBlank(v[a])
          /\ \E z \in (k + 1)..Len(v) : ~IsBlank(v[z])

\* Requests q and r differ at most in the spelling of their header names.
SameUpToCase(q, r) ==
    /\ Len(q) = Len(r)
    /\ \A k \in 1..Len(q) :
          /\ q[k].value = r[k].value
          /\ LowerName(q[k].name) = LowerName(r[k].name)

---------------------------------------------------------------------------
(* The claims                                                              *)

\* C1: when the only X-Endpoint-API-UserInfo value of a request is the padded
\* standard base64 encoding of a valid JSON document, the call returns
\* Ok(ExtractUserInfo(v)) with v equal to the direct parse of that document.
C1_OkEqualsDirectParse ==
    \A i \in Calls :
        (HasOneValue(history[i].request) /\ EncodesJson(OnlyValue(history[i].request)))
            => history[i].result
                   = OkResult(ParseJson(CandidateDoc(OnlyValue(history[i].request))).val)

C1_Witness ==
    \E i \in Calls :
        /\ HasOneValue(history[i].request)
        /\ EncodesJson(OnlyValue(history[i].request))
        /\ history[i].result.tag = "Ok"
        /\ history[i].result.value.t = "obj"
        /\ Len(history[i].result.value.items) = 2

\* C2: a request with no line naming X-Endpoint-API-UserInfo in any casing is
\* answered 400 "Invalid X-Endpoint-API-UserInfo : Not found".
C2_MissingHeaderRejected ==
    \A i \in Calls :
        UserInfoLines(history[i].request) = << >> => history[i].result = HeaderMissing

C2_Witness ==
    \E i \in Calls :
        /\ Len(history[i].request) > 0
        /\ UserInfoLines(history[i].request) = << >>
        /\ history[i].result = HeaderMissing

\* C3: a header value of any bytes that, trimmed, is not valid standard base64
\* is answered 400 "Invalid X-Endpoint-API-UserInfo : Not a valid base 64".
C3_InvalidBase64Rejected ==
    \A i \in Calls :
        (/\ HasOneValue(history[i].request)
         /\ ~Decode(Trim(OnlyValue(history[i].request))).ok)
            => history[i].result = InvalidBase64

\* C4: a header value whose trimmed content decodes to bytes that are no JSON
\* document is answered 400 "Invalid X-Endpoint-API-UserInfo : Not a valid
\* JSON"; so is a present header whose value is empty or blank.
C4_InvalidJsonRejected ==
    \A i \in Calls :
        HasOneValue(history[i].request) =>
            LET v == OnlyValue(history[i].request)
                bytes == Decode(Trim(v))
            IN  /\ (bytes.ok /\ ~ParseJson(bytes.bytes).ok) => history[i].result = InvalidJson
                /\ (\A k \in 1..Len(v) : IsBlank(v[k])) => history[i].result = InvalidJson

C4_Witness ==
    \E i, j \in Calls :
        /\ HasOneValue(history[i].request) /\ HasOneValue(history[j].request)
        /\ OnlyValue(history[i].request) = << >>
        /\ OnlyValue(history[j].request) = << SPACE >>
        /\ history[i].result = InvalidJson
        /\ history[j].result = InvalidJson

\* C5: every call ends by returning Ok(payload) or Err((400, message)), never
\* in another way.
C5_OkOrErr ==
    pc = "done" =>
        \/ result.tag = "Ok"
        \/ result.tag = "Err" /\ result.status = 400

\* C6: spaces added before and after a valid base64 value change nothing in
\* the outcome; a blank inside the value is kept and is answered as invalid
\* base64.
C6_EdgeWhitespaceOnly ==
    /\ \A i, j \in Calls :
          (/\ IsPaddingOf(history[j].request, history[i].request)
           /\ IsBase64Text(history[i].request[1].value))
              => history[j].result = history[i].result
    /\ \A i \in Calls :
          (HasOneValue(history[i].request) /\ HasInnerBlank(OnlyValue(history[i].request)))
              => history[i].result = InvalidBase64

C6_Witness ==
    \E i, j \in Calls :
        /\ IsPaddingOf(history[j].request, history[i].request)
        /\ Len(history[j].request[1].value) = Len(history[i].request[1].value) + 2
        /\ history[j].request[1].value[1] = SPACE
        /\ IsBase64Text(history[i].request[1].value)
        /\ history[i].result.tag = "Ok"
        /\ history[j].result.tag = "Ok"

\* C7: the outcome does not depend on the casing in which the request spells
\* the header name, and a header present under any casing is never answered
\* "Not found".
C7_CaseInsensitive ==
    /\ \A i, j \in Calls :
          SameUpToCase(history[i].request, history[j].request)
              => history[i].result = history[j].result
    /\ \A i \in Calls :
          UserInfoLines(history[i].request) # << >> => history[i].result # HeaderMissing

C7_Witness ==
    \E i, j \in Calls :
        /\ SameUpToCase(history[i].request, history[j].request)
        /\ history[i].request # history[j].request
        /\ history[i].request[1].name = HEADER_X_USER_INFO
        /\ history[i].result.tag = "Ok"
        /\ history[j].result.tag = "Ok"

\* C8: two calls on the same header set end the same way, and a call leaves
\* the headers it was given as they were.
C8_Idempotent ==
    /\ \A i, j \in Calls :
          history[i].request = history[j].request
              => /\ history[i].result = history[j].result
                 /\ history[i].logs = history[j].logs
    /\ headers = HeaderMapOf(request)

C8_Witness ==
    /\ Len(history) = 2
    /\ history[1].request = history[2].request
    /\ history[1].result.tag = "Ok"
    /\ history[2].result.tag = "Ok"

\* C9: a call that is answered invalid base64 or invalid JSON has emitted, before
\* it returned, exactly one error-level entry naming the header and the
\* failure; a call answered "Not found" or Ok has emitted none.
C9_LogsOnDecodeFailure ==
    /\ \A i \in Calls :
          /\ history[i].result = InvalidBase64
                => history[i].logs = << [level |-> "error", header |-> HEADER_X_USER_INFO,
                                         cause |-> "base64"] >>
          /\ history[i].result = InvalidJson
                => history[i].logs = << [level |-> "error", header |-> HEADER_X_USER_INFO,
                                         cause |-> "json"] >>
          /\ (history[i].result = HeaderMissing \/ history[i].result.tag = "Ok")
                => history[i].logs = << >>
    /\ pc = "done" => logs = history[Len(history)].logs

C9_Witness ==
    /\ Len(history) = 2
    /\ history[1].result = HeaderMissing /\ history[1].logs = << >>
    /\ history[2].result = InvalidBase64 /\ Len(history[2].logs) = 1

\* C10: when the header occurs several times the outcome is that of a request
\* carrying the first occurrence alone.
C10_FirstOccurrenceWins ==
    \A i, j \in Calls :
        (/\ Len(UserInfoLines(history[i].request)) >= 2
         /\ history[j].request = << UserInfoLines(history[i].request)[1] >>)
            => history[j].result = history[i].result

C10_Witness ==
    \E i, j \in Calls :
        /\ Len(UserInfoLines(history[i].request)) >= 2
        /\ history[j].request = << UserInfoLines(history[i].request)[1] >>
        /\ UserInfoLines(history[i].request)[2].value # UserInfoLines(history[i].request)[1].value
        /\ history[i].result.tag = "Ok"
        /\ history[j].result.tag = "Ok"

====
